---- MODULE Spec2Model ----
(***************************************************************************)
(* Model of the two context reducers of src/py/reducer_test.py:            *)
(* EmbeddingReducer.find_relevant_context (lines 19-73) and                *)
(* TextTilingReducer.find_relevant_context (lines 103-159), each followed  *)
(* through any sequence of calls on one instance.                          *)
(*                                                                         *)
(* Texts are sequences of characters, so that split, strip, lower, join    *)
(* and substring search are computed as Python computes them. A printable  *)
(* ASCII character is written as itself, tab, line feed, form feed and     *)
(* carriage return as "\t", "\n", "\f", "\r", every other character (and   *)
(* the grave accent) by its code point, as in "U+00A0". Texts are over the *)
(* characters of Alphabet.                                                 *)
(* The embedding model and the TextTiling tokenizer are external: their    *)
(* results (similarity scores, the order numpy's unstable argsort leaves   *)
(* equal scores in, the segments, a failure) are inputs of the call.       *)
(* Wall-clock time is counted in provider calls (one tick each).           *)
(* Segment scores are binary64 floats, rounded operation by operation as   *)
(* the source's float arithmetic rounds them.                              *)
(***************************************************************************)
EXTENDS Integers, Sequences, FiniteSets, TLC

VARIABLES reducer, top_k, last_timing, pc, call

vars == <<reducer, top_k, last_timing, pc, call>>

(***************************************************************************)
(* Bounds of the model and constants of the program.                       *)
(***************************************************************************)
MaxContext == 2
MaxScore == 2
MaxTopK == 2
MaxSegmentsArg == 2
LongDocLines == 22

MinLineLength == 10
FallbackRadius == 10
KeyTermWeightTenths == 3
DensityWeightTenths == 1

(***************************************************************************)
(* Python list and string primitives.                                      *)
(***************************************************************************)
NL == "\n"

\* str.isspace(): the characters str.strip() removes and str.split() splits at
Whitespace ==
    {"\t", "\n", "U+000B", "\f", "\r", "U+001C", "U+001D", "U+001E", "U+001F",
     " ", "U+0085", "U+00A0", "U+1680", "U+2000", "U+2001", "U+2002",
     "U+2003", "U+2004", "U+2005", "U+2006", "U+2007", "U+2008", "U+2009",
     "U+200A", "U+2028", "U+2029", "U+202F", "U+205F", "U+3000"}

\* the ASCII characters that are not whitespace
AsciiGraphic ==
    {"!", "\"", "#", "$", "%", "&", "'", "(", ")", "*", "+", ",", "-", ".",
     "/", "0", "1", "2", "3", "4", "5", "6", "7", "8", "9", ":", ";", "<",
     "=", ">", "?", "@", "A", "B", "C", "D", "E", "F", "G", "H", "I", "J",
     "K", "L", "M", "N", "O", "P", "Q", "R", "S", "T", "U", "V", "W", "X",
     "Y", "Z", "[", "\\", "]", "^", "_", "U+0060", "a", "b", "c", "d", "e", "f",
     "g", "h", "i", "j", "k", "l", "m", "n", "o", "p", "q", "r", "s", "t",
     "u", "v", "w", "x", "y", "z", "{", "|", "}", "~"}

AsciiControl ==
    {"U+0000", "U+0001", "U+0002", "U+0003", "U+0004", "U+0005", "U+0006",
     "U+0007", "U+0008", "U+000E", "U+000F", "U+0010", "U+0011", "U+0012",
     "U+0013", "U+0014", "U+0015", "U+0016", "U+0017", "U+0018", "U+0019",
     "U+001A", "U+001B", "U+007F"}

\* the letters beyond ASCII that the texts of the model may hold: capital and
\* small e with acute, capital I with dot above, capital sigma, small sigma,
\* final small sigma; and the combining dot above
CapitalEAcute == "U+00C9"

SmallEAcute == "U+00E9"

CapitalIDot == "U+0130"

CombiningDot == "U+0307"

CapitalSigma == "U+03A3"

SmallSigma == "U+03C3"

FinalSigma == "U+03C2"

\* the characters of the model's texts
Alphabet ==
    Whitespace \cup AsciiGraphic \cup AsciiControl
        \cup {CapitalEAcute, SmallEAcute, CapitalIDot, CombiningDot,
              CapitalSigma, SmallSigma, FinalSigma}

LowerLetters == <<"a", "b", "c", "d", "e", "f", "g", "h", "i", "j", "k", "l", "m", "n", "o", "p", "q", "r", "s", "t", "u", "v", "w", "x", "y", "z">>

UpperLetters == <<"A", "B", "C", "D", "E", "F", "G", "H", "I", "J", "K", "L", "M", "N", "O", "P", "Q", "R", "S", "T", "U", "V", "W", "X", "Y", "Z">>

Min(a, b) == IF a < b THEN a ELSE b

Max(a, b) == IF a > b THEN a ELSE b

\* sorted(S) for a finite set of integers
SortedSeq(S) ==
    [k \in 1..Cardinality(S) |->
        CHOOSE x \in S : Cardinality({y \in S : y < x}) = k - 1]

\* s[i:j] with Python's treatment of negative and out-of-range bounds
Slice(s, i, j) ==
    LET n == Len(s)
        lo == IF i < 0 THEN Max(0, n + i) ELSE Min(i, n)
        hi == IF j < 0 THEN Max(0, n + j) ELSE Min(j, n)
    IN  SubSeq(s, lo + 1, hi)

\* s[i:]
SliceFrom(s, i) == Slice(s, i, Len(s))

\* s[:j]
SliceTo(s, j) == Slice(s, 0, j)

\* s[::-1]
Reverse(s) == [k \in 1..Len(s) |-> s[Len(s) + 1 - k]]

\* s.split(sep) for a one-character separator
Split(s, sep) ==
    LET P  == {i \in 1..Len(s) : s[i] = sep}
        bs == <<0>> \o SortedSeq(P) \o <<Len(s) + 1>>
    IN  [k \in 1..(Len(bs) - 1) |-> SubSeq(s, bs[k] + 1, bs[k + 1] - 1)]

RECURSIVE Join(_, _)
\* sep.join(parts)
Join(parts, sep) ==
    IF parts = <<>> THEN <<>>
    ELSE IF Len(parts) = 1 THEN parts[1]
    ELSE parts[1] \o sep \o Join(Tail(parts), sep)

\* s.strip()
Strip(s) ==
    LET I == {i \in 1..Len(s) : s[i] \notin Whitespace}
    IN  IF I = {} THEN <<>>
        ELSE SubSeq(s, CHOOSE i \in I : \A j \in I : i <= j,
                       CHOOSE i \in I : \A j \in I : i >= j)

\* the letters of the alphabet that have a case, and the characters the
\* final-sigma rule of str.lower() looks through
Cased ==
    {LowerLetters[k] : k \in 1..26} \cup {UpperLetters[k] : k \in 1..26}
        \cup {CapitalEAcute, SmallEAcute, CapitalIDot, CapitalSigma, SmallSigma,
              FinalSigma}

CaseIgnorable == {"'", ".", ":", "^", "U+0060", CombiningDot}

\* c.lower() for each character of the alphabet: a string, of two characters
\* for the capital I with dot above
LowerCaseOf ==
    [c \in Alphabet |->
        IF \E u \in 1..26 : UpperLetters[u] = c
        THEN <<LowerLetters[CHOOSE u \in 1..26 : UpperLetters[u] = c]>>
        ELSE IF c = CapitalEAcute THEN <<SmallEAcute>>
        ELSE IF c = CapitalIDot THEN <<"i", CombiningDot>>
        ELSE IF c = CapitalSigma THEN <<SmallSigma>>
        ELSE <<c>>]

\* c.lower() for one character
LowerChar(c) == LowerCaseOf[c]

\* the capital sigma at position i of s ends a word: a cased letter stands
\* before it and none after it, case-ignorable characters looked through
IsFinalSigma(s, i) ==
    /\ \E j \in 1..(i - 1) :
          s[j] \in Cased /\ \A k \in (j + 1)..(i - 1) : s[k] \in CaseIgnorable
    /\ ~\E j \in (i + 1)..Len(s) :
          s[j] \in Cased /\ \A k \in (i + 1)..(j - 1) : s[k] \in CaseIgnorable

RECURSIVE LowerFrom(_, _)
\* s[i:] of s.lower(), 1-based
LowerFrom(s, i) ==
    IF i > Len(s) THEN <<>>
    ELSE (IF s[i] = CapitalSigma /\ IsFinalSigma(s, i)
          THEN <<FinalSigma>> ELSE LowerChar(s[i])) \o LowerFrom(s, i + 1)

\* s.lower()
Lower(s) == LowerFrom(s, 1)

\* set(s.split()): the maximal runs of non-whitespace characters
Words(s) ==
    LET starts == {i \in 1..Len(s) :
                      s[i] \notin Whitespace /\ (i = 1 \/ s[i - 1] \in Whitespace)}
        ends   == {j \in 1..Len(s) :
                      s[j] \notin Whitespace /\ (j = Len(s) \/ s[j + 1] \in Whitespace)}
    IN  {SubSeq(s, i, CHOOSE j \in ends : j >= i /\ \A e \in ends : e >= i => j <= e) :
            i \in starts}

\* t in s
Contains(s, t) ==
    \E i \in 0..(Len(s) - Len(t)) : SubSeq(s, i + 1, i + Len(t)) = t

\* s.count(c)
Count(s, c) == Cardinality({i \in 1..Len(s) : s[i] = c})

(***************************************************************************)
(* Python float: IEEE 754 binary64 with round-to-nearest, ties to even.    *)
(* A natural number of any size is the sequence of its digits in base      *)
(* LimbBase, lowest first, without leading zero digit; a float x >= 0 is   *)
(* [m, e] with x = m * 2^e and m of exactly MantissaBits bits, or zero.    *)
(* The scores of the program stay far from the subnormal and the infinite  *)
(* range.                                                                  *)
(***************************************************************************)
LimbBits == 15

LimbBase == 2^LimbBits

MantissaBits == 53

RECURSIVE NatNorm(_)
\* the digits without leading zeros
NatNorm(a) ==
    IF a = <<>> THEN <<>>
    ELSE IF a[Len(a)] = 0 THEN NatNorm(SubSeq(a, 1, Len(a) - 1))
    ELSE a

RECURSIVE NatOfInt(_)
\* the digits of a non-negative int
NatOfInt(k) ==
    IF k = 0 THEN <<>> ELSE <<k % LimbBase>> \o NatOfInt(k \div LimbBase)

RECURSIVE NatAddCarry(_, _, _)
NatAddCarry(a, b, carry) ==
    IF a = <<>> /\ b = <<>>
    THEN (IF carry = 0 THEN <<>> ELSE <<carry>>)
    ELSE LET x   == IF a = <<>> THEN 0 ELSE Head(a)
             y   == IF b = <<>> THEN 0 ELSE Head(b)
             sum == x + y + carry
         IN  <<sum % LimbBase>>
                 \o NatAddCarry(IF a = <<>> THEN <<>> ELSE Tail(a),
                                IF b = <<>> THEN <<>> ELSE Tail(b),
                                sum \div LimbBase)

\* a + b
NatAdd(a, b) == NatAddCarry(a, b, 0)

RECURSIVE NatMulSmallCarry(_, _, _)
NatMulSmallCarry(a, k, carry) ==
    IF a = <<>>
    THEN (IF carry = 0 THEN <<>> ELSE <<carry>>)
    ELSE LET prod == Head(a) * k + carry
         IN  <<prod % LimbBase>> \o NatMulSmallCarry(Tail(a), k, prod \div LimbBase)

\* a * k for 0 <= k < LimbBase
NatMulSmall(a, k) == IF k = 0 THEN <<>> ELSE NatMulSmallCarry(a, k, 0)

RECURSIVE NatMul(_, _)
\* a * b
NatMul(a, b) ==
    IF b = <<>> \/ a = <<>> THEN <<>>
    ELSE NatAdd(NatMulSmall(a, Head(b)), NatNorm(<<0>> \o NatMul(a, Tail(b))))

RECURSIVE NatDivSmallFrom(_, _, _, _)
\* the digits i, ..., 1 of a \div k, highest first, and the remainder, given
\* the remainder rem of the digits above i
NatDivSmallFrom(a, k, i, rem) ==
    IF i = 0 THEN [q |-> <<>>, r |-> rem]
    ELSE LET cur  == rem * LimbBase + a[i]
             rest == NatDivSmallFrom(a, k, i - 1, cur % k)
         IN  [q |-> rest.q \o <<cur \div k>>, r |-> rest.r]

\* a \div k and a % k for 0 < k < LimbBase
NatDivSmall(a, k) ==
    LET d == NatDivSmallFrom(a, k, Len(a), 0)
    IN  [q |-> NatNorm(d.q), r |-> d.r]

\* the number of binary digits of an int 0 < k <= LimbBase
BitLenSmall(k) == CHOOSE b \in 1..(LimbBits + 1) : 2^(b - 1) <= k /\ k < 2^b

\* the number of binary digits of a
NatBitLen(a) ==
    IF a = <<>> THEN 0 ELSE LimbBits * (Len(a) - 1) + BitLenSmall(a[Len(a)])

\* binary digit i of a, the lowest being digit 0
NatBit(a, i) ==
    IF i \div LimbBits >= Len(a) THEN 0
    ELSE (a[i \div LimbBits + 1] \div 2^(i % LimbBits)) % 2

\* a * 2^s
NatShiftLeft(a, s) ==
    IF a = <<>> THEN <<>>
    ELSE [k \in 1..(s \div LimbBits) |-> 0] \o NatMulSmall(a, 2^(s % LimbBits))

\* a \div 2^t
NatShiftRight(a, t) ==
    IF t \div LimbBits >= Len(a) THEN <<>>
    ELSE NatDivSmall(SubSeq(a, t \div LimbBits + 1, Len(a)), 2^(t % LimbBits)).q

\* a % 2^t # 0
NatLowBitsSet(a, t) == \E i \in 0..(t - 1) : NatBit(a, i) = 1

RECURSIVE NatLess(_, _)
\* a < b
NatLess(a, b) ==
    IF Len(a) # Len(b) THEN Len(a) < Len(b)
    ELSE IF a = <<>> THEN FALSE
    ELSE IF a[Len(a)] # b[Len(b)] THEN a[Len(a)] < b[Len(b)]
    ELSE NatLess(SubSeq(a, 1, Len(a) - 1), SubSeq(b, 1, Len(b) - 1))

FloatZero == [m |-> <<>>, e |-> 0]

\* the float nearest to (n / d) * 2^e0, ties to the even mantissa, for a
\* natural number n and an int 0 < d < LimbBase
FloatRound(n, d, e0) ==
    IF n = <<>> THEN FloatZero
    ELSE LET s   == Max(0, MantissaBits + 2 + BitLenSmall(d) - NatBitLen(n))
             qr  == NatDivSmall(NatShiftLeft(n, s), d)
             t   == NatBitLen(qr.q) - MantissaBits
             m0  == NatShiftRight(qr.q, t)
             up  == /\ NatBit(qr.q, t - 1) = 1
                    /\ \/ qr.r # 0
                       \/ NatLowBitsSet(qr.q, t - 1)
                       \/ NatBit(m0, 0) = 1
             m1  == IF up THEN NatAdd(m0, <<1>>) ELSE m0
         IN  IF NatBitLen(m1) > MantissaBits
             THEN [m |-> NatShiftRight(m1, 1), e |-> e0 - s + t + 1]
             ELSE [m |-> m1, e |-> e0 - s + t]

\* float(k) for an int k >= 0
FloatOfInt(k) == FloatRound(NatOfInt(k), 1, 0)

\* a / b for ints a >= 0 and b > 0
FloatDiv(a, b) == FloatRound(NatOfInt(a), b, 0)

\* x * y
FloatMul(x, y) == FloatRound(NatMul(x.m, y.m), 1, x.e + y.e)

\* x + y
FloatAdd(x, y) ==
    IF x.m = <<>> THEN y
    ELSE IF y.m = <<>> THEN x
    ELSE LET e == Min(x.e, y.e)
         IN  FloatRound(NatAdd(NatShiftLeft(x.m, x.e - e),
                               NatShiftLeft(y.m, y.e - e)), 1, e)

\* x < y
FloatLess(x, y) ==
    IF y.m = <<>> THEN FALSE
    ELSE IF x.m = <<>> THEN TRUE
    ELSE x.e < y.e \/ (x.e = y.e /\ NatLess(x.m, y.m))

(***************************************************************************)
(* The documents and queries the calls are made with.                      *)
(***************************************************************************)
LineStatusCode == <<"s", "t", "a", "t", "u", "s", " ", "c", "o", "d", "e">>

LineStatusCodeCaps == <<"S", "t", "a", "t", "u", "s", " ", "C", "o", "d", "e">>

LineHttpReply == <<"h", "t", "t", "p", " ", "r", "e", "p", "l", "y">>

LinePadded == <<" ", " ", "h", "t", "t", "p", " ", "r", "e", "p", "l", "y", " ">>

LineBlank == <<"\t", " ">>

LineTheRequest == <<"t", "h", "e", " ", "r", "e", "q", "u", "e", "s", "t">>

LineResponseOk == <<"r", "e", "s", "p", "o", "n", "s", "e", " ", "o", "k">>

LineTheResponse == <<"t", "h", "e", " ", "r", "e", "s", "p", "o", "n", "s", "e">>

LineIntro == <<"i", "n", "t", "r", "o">>

LineShort == <<"s", "h", "o", "r", "t">>

LineEnd == <<"e", "n", "d">>

LineThePlain == <<"t", "h", "e", " ", "p", "l", "a", "i", "n">>

LineTheStatusCode ==
    <<"t", "h", "e", " ", "s", "t", "a", "t", "u", "s", " ", "c", "o", "d", "e">>

\* one eligible line
DocOneLine == LineStatusCode

\* no eligible line: ten characters, ten characters once stripped, empty, blank
DocNoEligible == Join(<<LineHttpReply, LinePadded, <<>>, LineBlank>>, <<NL>>)

\* two paragraphs, an eligible line in each
DocTwoParas == Join(<<LineStatusCode, <<>>, LineTheRequest>>, <<NL>>)

\* three paragraphs, the middle one without an eligible line
DocThreeParas ==
    Join(<<LineStatusCodeCaps, <<>>, LineHttpReply, <<>>, LineTheResponse>>, <<NL>>)

\* eligible lines at indices 1, 2 and 4 of six
DocWindows ==
    Join(<<LineIntro, LineStatusCodeCaps, LineTheRequest, LineShort,
           LineResponseOk, LineEnd>>, <<NL>>)

\* more lines than the fallback window holds, each a single letter
DocLong == Join([i \in 1..LongDocLines |-> <<LowerLetters[1 + (i % 26)]>>], <<NL>>)

\* ten characters once the form feed is stripped
LineFormFeedStatusCod ==
    <<"\f", "s", "t", "a", "t", "u", "s", " ", "c", "o", "d">>

\* two words separated by a no-break space
LineTheNbspResponse ==
    <<"T", "h", "e", "U+00A0", "R", "e", "s", "p", "o", "n", "s", "e">>

\* letters beyond ASCII: the capital sigma ends its word
LineEteIdotSigma ==
    <<CapitalEAcute, "t", SmallEAcute, " ", CapitalIDot, CapitalSigma>>

\* a blank line of a line tabulation and a no-break space
LineBlankBeyondAscii == <<"U+000B", "U+00A0">>

\* two paragraphs with scores that are equal as fractions and differ as floats
\* for the query "the response"
DocScoreTie ==
    Join(<<<<"s", "t", "a", "t", "u", "s">>, <<"c", "o", "d", "e">>,
           <<"h", "t", "t", "p">>, <<"r", "e", "q", "u", "e", "s", "t">>, <<>>,
           LineTheResponse, <<>>>>, <<NL>>)

\* three paragraphs with whitespace and letters beyond ASCII
DocBeyondAscii ==
    Join(<<LineFormFeedStatusCod, <<>>, LineTheNbspResponse, <<>>,
           LineEteIdotSigma, LineBlankBeyondAscii>>, <<NL>>)

\* three paragraphs, the last two alike but for the key terms of the last
DocKeyTerms ==
    Join(<<LineIntro, <<>>, LineThePlain, <<>>, LineTheStatusCode>>, <<NL>>)

DocEmpty == <<>>

Documents ==
    {DocOneLine, DocNoEligible, DocTwoParas, DocThreeParas, DocWindows, DocLong,
     DocKeyTerms, DocScoreTie, DocBeyondAscii, DocEmpty}

QueryStatusCode == LineStatusCode

QueryTheResponse == LineTheResponse

QueryEmpty == <<>>

\* the words of LineEteIdotSigma in capitals, with whitespace beyond ASCII
QueryBeyondAscii ==
    <<"\t", CapitalEAcute, "T", CapitalEAcute, "U+00A0", CapitalIDot,
      CapitalSigma, "U+000B", "\f", "U+2003", "\r", "U+0085">>

Queries == {QueryStatusCode, QueryTheResponse, QueryEmpty, QueryBeyondAscii}

ContextValues == 0..MaxContext

TopKValues == (0 - 1)..MaxTopK

MaxSegmentsValues == (0 - 1)..MaxSegmentsArg

Scores == 1..MaxScore

(***************************************************************************)
(* State of a call and of the instance.                                    *)
(***************************************************************************)
NoTiming ==
    [exists |-> FALSE, total_time |-> 0, encoding_time |-> 0,
     similarity_time |-> 0, size |-> 0, query_length |-> 0]

NoCall ==
    [content |-> <<>>, query |-> <<>>, context_before |-> 0, context_after |-> 0,
     max_segments |-> 0, failed |-> "none", similarities |-> <<>>,
     segments |-> <<>>, segmented |-> FALSE, encode_calls |-> 0,
     similarity_calls |-> 0, tokenize_calls |-> 0, selected |-> <<>>,
     text |-> <<>>, elapsed |-> 0, scores |-> <<>>, ranked |-> <<>>]

(***************************************************************************)
(* EmbeddingReducer                                                        *)
(***************************************************************************)
\* the filter without the strip: a padded short line passes
IsValidLineUnstripped(line) == Len(line) > 0 /\ Len(line) > MinLineLength

\* line 27: the filter of valid_lines
IsValidLine(line) == Len(Strip(line)) > 0 /\ Len(Strip(line)) > MinLineLength

\* lines 26-32: line_indices, the 0-based document indices of the valid lines
LineIndices(lines) ==
    SortedSeq({i \in 0..(Len(lines) - 1) : IsValidLine(lines[i + 1])})

\* line 23 and lines 26-32, tabulated for the documents of the model
LinesOf == [d \in Documents |-> Split(d, NL)]

LineIndicesOf == [d \in Documents |-> LineIndices(LinesOf[d])]

\* line 42: the scores the provider may return for n lines
Similarities(n) == [1..n -> Scores]

\* line 45, np.argsort(similarities): ascending, equal scores in any order
\* (the default sort kind is not stable)
Argsort(sims) ==
    {p \in [1..Len(sims) -> 0..(Len(sims) - 1)] :
        /\ \A a, b \in 1..Len(sims) : a # b => p[a] # p[b]
        /\ \A a \in 1..(Len(sims) - 1) : sims[p[a] + 1] <= sims[p[a + 1] + 1]}

\* the slice taken at the wrong end of the ascending order: [:self.top_k]
TopIndicesLowest(order, k) == Reverse(SliceTo(order, k))

\* line 45: [-self.top_k:][::-1]
TopIndices(order, k) == Reverse(SliceFrom(order, 0 - k))

\* the window without the + 1 of its upper end
WindowHalfOpen(actual_line_idx, context_before, context_after, num_lines) ==
    {i \in (actual_line_idx - context_before)..(actual_line_idx + context_after - 1) :
        0 <= i /\ i < num_lines}

\* lines 52-55: the window of one selected line, clipped to the document
Window(actual_line_idx, context_before, context_after, num_lines) ==
    {i \in (actual_line_idx - context_before)..(actual_line_idx + context_after) :
        0 <= i /\ i < num_lines}

\* lines 49-55: context_indices
ContextIndices(top_indices, line_indices, context_before, context_after, num_lines) ==
    UNION {Window(line_indices[top_indices[j] + 1], context_before, context_after,
                  num_lines) : j \in 1..Len(top_indices)}

\* lines 58-60: result_lines
ResultLines(lines, context_indices) ==
    LET sorted_indices == SortedSeq(context_indices)
    IN  [k \in 1..Len(sorted_indices) |-> lines[sorted_indices[k] + 1]]

\* lines 65-71
EmbeddingTiming(num_lines, query) ==
    [exists |-> TRUE, total_time |-> 3, encoding_time |-> 2, similarity_time |-> 1,
     size |-> num_lines, query_length |-> Len(query)]

\* lines 29-30: no valid line, the early return
EmbReturnUnreduced(content, query, cb, ca) ==
    /\ call' = [NoCall EXCEPT !.content = content, !.query = query,
                              !.context_before = cb, !.context_after = ca,
                              !.text = Join(LinesOf[content], <<NL>>),
                              !.elapsed = 0]
    /\ pc' = "returned"
    /\ UNCHANGED last_timing

\* the failure swallowed: the document returned as if nothing was eligible
EmbProviderFailureSwallowed(content, query, cb, ca, stage) ==
    /\ call' = [NoCall EXCEPT !.content = content, !.query = query,
                              !.context_before = cb, !.context_after = ca,
                              !.failed = stage,
                              !.encode_calls =
                                  IF stage = "encode_query" THEN 1 ELSE 2,
                              !.similarity_calls =
                                  IF stage = "similarity" THEN 1 ELSE 0,
                              !.text = content]
    /\ pc' = "returned"
    /\ UNCHANGED last_timing

\* lines 36, 37, 42: the provider raises in its 1st, 2nd or 3rd call
EmbProviderFails(content, query, cb, ca, stage) ==
    /\ call' = [NoCall EXCEPT !.content = content, !.query = query,
                              !.context_before = cb, !.context_after = ca,
                              !.failed = stage,
                              !.encode_calls =
                                  IF stage = "encode_query" THEN 1 ELSE 2,
                              !.similarity_calls =
                                  IF stage = "similarity" THEN 1 ELSE 0]
    /\ pc' = "raised"
    /\ UNCHANGED last_timing

\* lines 32-73: scoring, selection, expansion and reassembly
EmbReduce(content, query, cb, ca, sims, order) ==
    LET lines           == LinesOf[content]
        line_indices    == LineIndicesOf[content]
        top_indices     == TopIndices(order, top_k)
        context_indices == ContextIndices(top_indices, line_indices, cb, ca, Len(lines))
        timing          == EmbeddingTiming(Len(line_indices), query)
    IN  /\ call' = [NoCall EXCEPT !.content = content, !.query = query,
                                  !.context_before = cb, !.context_after = ca,
                                  !.similarities = sims,
                                  !.encode_calls = 2, !.similarity_calls = 1,
                                  !.selected = top_indices,
                                  !.text = Join(ResultLines(lines, context_indices), <<NL>>),
                                  !.elapsed = timing.total_time]
        /\ last_timing' = timing
        /\ pc' = "returned"

\* lines 19-73
EmbFindRelevantContext ==
    /\ reducer = "embedding"
    /\ pc = "idle"
    /\ \E content \in Documents, query \in Queries,
          cb \in ContextValues, ca \in ContextValues :
          LET n == Len(LineIndicesOf[content])
          IN  IF n = 0
              THEN EmbReturnUnreduced(content, query, cb, ca)
              ELSE \/ \E stage \in {"encode_query", "encode_lines", "similarity"} :
                         EmbProviderFails(content, query, cb, ca, stage)
                   \/ \E sims \in Similarities(n) : \E order \in Argsort(sims) :
                         EmbReduce(content, query, cb, ca, sims, order)
    /\ UNCHANGED <<reducer, top_k>>

(***************************************************************************)
(* TextTilingReducer                                                       *)
(***************************************************************************)
\* the character positions at which a blank line starts: where the
\* tokenizer may begin a new segment
ParagraphBreaks(content) ==
    {i \in 2..(Len(content) - 1) : content[i] = NL /\ content[i + 1] = NL}

\* the contiguous pieces of content that begin at the positions of B
SegmentsAt(content, B) ==
    LET bs == <<1>> \o SortedSeq(B) \o <<Len(content) + 1>>
    IN  [k \in 1..(Len(bs) - 1) |-> SubSeq(content, bs[k], bs[k + 1] - 1)]

\* line 109, self.tokenizer.tokenize(content), when it returns: no segment at
\* all, or contiguous pieces that together are the document
Tokenizations(content) ==
    {<<>>} \cup {SegmentsAt(content, B) : B \in SUBSET ParagraphBreaks(content)}

TokenizationsOf == [d \in Documents |-> Tokenizations(d)]

\* line 126
KeyTerms ==
    {<<"s", "t", "a", "t", "u", "s">>, <<"c", "o", "d", "e">>,
     <<"r", "e", "s", "p", "o", "n", "s", "e">>,
     <<"r", "e", "q", "u", "e", "s", "t">>, <<"h", "t", "t", "p">>}

\* line 122
Overlap(segment, query) ==
    Cardinality(Words(Lower(query)) \cap Words(Lower(segment)))

\* line 127
KeyTermScore(segment) ==
    LET lowered == Lower(segment)
    IN  Cardinality({term \in KeyTerms : Contains(lowered, term)})

\* line 130: the number of non-blank lines of the segment
NonBlankLines(segment) ==
    LET ls == Split(segment, NL)
    IN  Cardinality({i \in 1..Len(ls) : Strip(ls[i]) # <<>>})

\* line 133: the literals 0.3 and 0.1
KeyTermWeight == FloatDiv(KeyTermWeightTenths, 10)

DensityWeight == FloatDiv(DensityWeightTenths, 10)

\* line 123
NormalizedScore(segment, query) ==
    LET query_words == Words(Lower(query))
    IN  IF query_words # {}
        THEN FloatDiv(Overlap(segment, query), Cardinality(query_words))
        ELSE FloatZero

\* lines 130-131
DensityScore(segment) ==
    FloatDiv(NonBlankLines(segment), Max(1, Count(segment, NL)))

\* total_score without the key term boost
SegmentScoreNoKeyTerms(segment, query) ==
    FloatAdd(NormalizedScore(segment, query),
             FloatMul(DensityScore(segment), DensityWeight))

\* lines 119-133: total_score, the float sum taken from left to right
SegmentScore(segment, query) ==
    FloatAdd(FloatAdd(NormalizedScore(segment, query),
                      FloatMul(FloatOfInt(KeyTermScore(segment)), KeyTermWeight)),
             FloatMul(DensityScore(segment), DensityWeight))

RECURSIVE SegmentScores(_, _)
\* lines 118-134: the score of every segment, in segment order
SegmentScores(segments, query) ==
    IF segments = <<>> THEN <<>>
    ELSE <<SegmentScore(Head(segments), query)>> \o SegmentScores(Tail(segments), query)

\* line 137: a sorts before b
ScoreGreater(a, b) == FloatLess(b, a)

\* line 137: the 0-based segment indices by score, highest first, equal
\* scores in their original order (list.sort is stable, also with reverse)
RankedSegments(scores) ==
    LET n == Len(scores)
        before(i) ==
            Cardinality({j \in 1..n : ScoreGreater(scores[j], scores[i])})
            + Cardinality({j \in 1..(i - 1) : ~ScoreGreater(scores[i], scores[j])
                                              /\ ~ScoreGreater(scores[j], scores[i])})
    IN  [r \in 1..n |-> (CHOOSE i \in 1..n : before(i) = r - 1) - 1]

\* the selection left in score order: line 141 missing
TopSegmentsByScore(ranked, max_segments) == SliceTo(ranked, max_segments)

\* lines 138 and 141: the first max_segments of the ranking, by position
TopSegments(ranked, max_segments) ==
    LET top == SliceTo(ranked, max_segments)
    IN  SortedSeq({top[k] : k \in 1..Len(top)})

\* the segments put together without the blank line
JoinSegmentsAdjacent(segments, top_segments) ==
    Join([k \in 1..Len(top_segments) |-> segments[top_segments[k] + 1]], <<>>)

\* line 142
JoinSegments(segments, top_segments) ==
    Join([k \in 1..Len(top_segments) |-> segments[top_segments[k] + 1]], <<NL, NL>>)

\* the window with its upper end included
FallbackInclusive(content) ==
    LET lines     == Split(content, NL)
        mid_point == Len(lines) \div 2
    IN  Join(Slice(lines, Max(0, mid_point - FallbackRadius),
                   mid_point + FallbackRadius + 1), <<NL>>)

\* lines 146-148
Fallback(content) ==
    LET lines     == Split(content, NL)
        mid_point == Len(lines) \div 2
    IN  Join(Slice(lines, Max(0, mid_point - FallbackRadius),
                   mid_point + FallbackRadius), <<NL>>)

\* lines 146-148, tabulated for the documents of the model
FallbackOf == [d \in Documents |-> Fallback(d)]

\* lines 153-157
TextTilingTiming(num_segments, query) ==
    [exists |-> TRUE, total_time |-> 1, encoding_time |-> 0, similarity_time |-> 0,
     size |-> num_segments, query_length |-> Len(query)]

\* lines 111-112: no segment, the early return
TTReturnUnreduced(content, query, max_segments) ==
    /\ call' = [NoCall EXCEPT !.content = content, !.query = query,
                              !.max_segments = max_segments,
                              !.segmented = TRUE, !.tokenize_calls = 1,
                              !.text = content, !.elapsed = 0]
    /\ pc' = "returned"
    /\ UNCHANGED last_timing

\* lines 144-159: the tokenizer raises, the except branch builds the result
TTFallback(content, query, max_segments) ==
    LET timing == TextTilingTiming(0, query)
    IN  /\ call' = [NoCall EXCEPT !.content = content, !.query = query,
                                  !.max_segments = max_segments,
                                  !.failed = "tokenize", !.tokenize_calls = 1,
                                  !.text = FallbackOf[content],
                                  !.elapsed = timing.total_time]
        /\ last_timing' = timing
        /\ pc' = "returned"

\* lines 114-142 and 150-159: scoring, selection and reassembly
TTReduce(content, query, max_segments, segments) ==
    \E scores \in {SegmentScores(segments, query)} :
    \E ranked \in {RankedSegments(scores)} :
        LET top_segments == TopSegments(ranked, max_segments)
            timing       == TextTilingTiming(Len(segments), query)
        IN  /\ call' = [NoCall EXCEPT !.content = content, !.query = query,
                                      !.max_segments = max_segments,
                                      !.segments = segments, !.segmented = TRUE,
                                      !.tokenize_calls = 1,
                                      !.scores = scores, !.ranked = ranked,
                                      !.selected = top_segments,
                                      !.text = JoinSegments(segments, top_segments),
                                      !.elapsed = timing.total_time]
            /\ last_timing' = timing
            /\ pc' = "returned"

\* lines 103-159
TTFindRelevantContext ==
    /\ reducer = "texttiling"
    /\ pc = "idle"
    /\ \E content \in Documents, query \in Queries,
          max_segments \in MaxSegmentsValues :
          \/ TTFallback(content, query, max_segments)
          \/ \E segments \in TokenizationsOf[content] :
                IF segments = <<>>
                THEN TTReturnUnreduced(content, query, max_segments)
                ELSE TTReduce(content, query, max_segments, segments)
    /\ UNCHANGED <<reducer, top_k>>

(***************************************************************************)
(* The caller                                                              *)
(***************************************************************************)
\* lines 180-184 and 201-205: the caller takes the returned pair and reads
\* the instance's last_timing; on an instance that never assigned it the read
\* raises AttributeError and the caller ends there
HarnessContinue ==
    /\ pc = "returned"
    /\ IF last_timing.exists
       THEN /\ pc' = "idle"
            /\ call' = NoCall
       ELSE /\ pc' = "attribute_error"
            /\ UNCHANGED call
    /\ UNCHANGED <<reducer, top_k, last_timing>>

\* lines 15-17 and 80-101: a fresh instance has no last_timing; only an
\* EmbeddingReducer has a top_k (0 stands for none in a TextTilingReducer)
Init ==
    /\ \/ reducer = "embedding" /\ top_k \in TopKValues
       \/ reducer = "texttiling" /\ top_k = 0
    /\ last_timing = NoTiming
    /\ pc = "idle"
    /\ call = NoCall

Next ==
    \/ EmbFindRelevantContext
    \/ TTFindRelevantContext
    \/ HarnessContinue

Spec == Init /\ [][Next]_vars

(***************************************************************************)
(* Properties                                                              *)
(***************************************************************************)
\* the 0-based indices of the eligible lines of a document: non-blank once
\* trimmed and longer than ten characters
EligibleSet(content) ==
    LET lines == Split(content, NL)
    IN  {i \in 0..(Len(lines) - 1) : Len(Strip(lines[i + 1])) > MinLineLength}

\* the document index of the eligible line at 0-based position b of the batch
OriginalIndex(content, b) ==
    CHOOSE i \in EligibleSet(content) :
        Cardinality({j \in EligibleSet(content) : j < i}) = b

\* the lines of the document with index in U, in increasing index order,
\* joined by newlines
LinesAt(content, U) ==
    LET lines == Split(content, NL)
        idx   == SortedSeq(U)
    IN  Join([k \in 1..Len(idx) |-> lines[idx[k] + 1]], <<NL>>)

\* the union of the clipped windows around the given document indices
WindowUnion(content, centres, before, after) ==
    {i \in 0..(Len(Split(content, NL)) - 1) :
        \E a \in centres : a - before <= i /\ i <= a + after}

\* the document indices of the lines the last embedding call selected
SelectedLines ==
    {OriginalIndex(call.content, call.selected[j]) : j \in 1..Len(call.selected)}

EmbReturned == reducer = "embedding" /\ pc = "returned"

TTReturned == reducer = "texttiling" /\ pc = "returned"

\* C1: with at least one eligible line, the text the embedding reducer
\* returns is exactly the document lines in the union of the clipped windows
\* [i - contextBefore, i + contextAfter] around the selected lines, each once,
\* in increasing index order.
C1_WindowUnionInOrder ==
    (EmbReturned /\ EligibleSet(call.content) # {}) =>
        call.text = LinesAt(call.content,
                            WindowUnion(call.content, SelectedLines,
                                        call.context_before, call.context_after))

\* two selected lines whose windows overlap, merged into less than the document
C1_Witness ==
    /\ EmbReturned
    /\ \E a, b \in SelectedLines :
          /\ a < b
          /\ b - call.context_before <= a + call.context_after
          /\ Cardinality(WindowUnion(call.content, SelectedLines,
                                     call.context_before, call.context_after))
                < Len(Split(call.content, NL))
          /\ Cardinality(WindowUnion(call.content, {a},
                                     call.context_before, call.context_after))
                < Cardinality(WindowUnion(call.content, SelectedLines,
                                          call.context_before, call.context_after))

\* C2: for topK >= 1 and n >= 1 eligible lines the embedding reducer selects
\* exactly min(topK, n) distinct eligible lines, no unselected line scoring
\* strictly higher than a selected one; topK >= n selects all of them and the
\* output is the union of all eligible lines' windows.
C2_TopKSelection ==
    LET n   == Cardinality(EligibleSet(call.content))
        sel == {call.selected[j] : j \in 1..Len(call.selected)}
    IN  (EmbReturned /\ top_k >= 1 /\ n >= 1) =>
            /\ Len(call.selected) = Min(top_k, n)
            /\ Cardinality(sel) = Len(call.selected)
            /\ sel \subseteq 0..(n - 1)
            /\ \A u \in (0..(n - 1)) \ sel : \A v \in sel :
                  call.similarities[u + 1] <= call.similarities[v + 1]
            /\ top_k >= n =>
                  call.text = LinesAt(call.content,
                                      WindowUnion(call.content, EligibleSet(call.content),
                                                  call.context_before, call.context_after))

\* a proper selection: fewer lines selected than eligible, scores not all equal
C2_Witness ==
    /\ EmbReturned
    /\ top_k >= 1
    /\ Len(call.selected) = top_k
    /\ top_k < Cardinality(EligibleSet(call.content))
    /\ \E a, b \in 1..Len(call.similarities) :
          call.similarities[a] < call.similarities[b]

\* C3: a topK < 1 (embedding reducer) or a maxSegments < 1 (segmentation
\* reducer) is rejected: a call that has lines to score, or segments to rank,
\* never returns a text for such a parameter.
C3_InvalidParameterRejected ==
    /\ (reducer = "embedding" /\ top_k < 1 /\ EligibleSet(call.content) # {}) =>
          pc # "returned"
    /\ (reducer = "texttiling" /\ call.max_segments < 1 /\ call.segmented
          /\ call.segments # <<>>) =>
          pc # "returned"

\* the lines of the document with index from mid + lo to mid + hi, clipped to
\* the document, mid being the number of lines halved
MidpointWindow(content, lo, hi) ==
    LET num == Len(Split(content, NL))
        mid == num \div 2
    IN  LinesAt(content, {i \in 0..(num - 1) : mid + lo <= i /\ i <= mid + hi})

TTFellBack == TTReturned /\ call.failed = "tokenize"

\* C4 as stated: when the segmentation provider fails the result is the lines
\* with index in the inclusive interval [mid - 10, mid + 10], clipped.
C4_FallbackInclusive ==
    TTFellBack =>
        call.text = MidpointWindow(call.content, 0 - FallbackRadius, FallbackRadius)

\* C4 as amended: when the segmentation provider fails the result is the lines
\* with index in [mid - 10, mid + 10), that is mid - 10 to mid + 9, clipped to
\* the document and joined by newlines, whatever the query and maxSegments.
C4_FallbackHalfOpen ==
    TTFellBack =>
        call.text = MidpointWindow(call.content, 0 - FallbackRadius, FallbackRadius - 1)

\* a fallback on a document with lines cut off at both ends of the window
C4_Witness ==
    /\ TTFellBack
    /\ Len(Split(call.content, NL)) > 2 * FallbackRadius + 1
    /\ Len(call.text) < Len(call.content)

\* C5: a document without eligible line is returned unchanged by the
\* embedding reducer, with elapsed time 0 and without any provider call; a
\* segmentation that yields no segment makes the segmentation reducer return
\* the document unchanged with elapsed time 0. Neither raises.
C5_EmptyInputUnchanged ==
    /\ (reducer = "embedding" /\ pc \in {"returned", "raised"}
          /\ EligibleSet(call.content) = {}) =>
          /\ pc = "returned"
          /\ call.text = call.content
          /\ call.elapsed = 0
          /\ call.encode_calls = 0
          /\ call.similarity_calls = 0
    /\ (reducer = "texttiling" /\ pc \in {"returned", "raised"}
          /\ call.segmented /\ call.segments = <<>>) =>
          /\ pc = "returned"
          /\ call.text = call.content
          /\ call.elapsed = 0

\* a document with non-blank lines, none of them eligible, returned as it is
C5_Witness ==
    /\ EmbReturned
    /\ EligibleSet(call.content) = {}
    /\ \E i \in 1..Len(Split(call.content, NL)) :
          Len(Strip(Split(call.content, NL)[i])) = MinLineLength
    /\ call.text = call.content

\* C6: a failure of the similarity provider makes the embedding call fail,
\* with no text returned and no provider call after the failing one (no
\* retry); a failure of the segmentation provider is never surfaced, the call
\* returns the fallback text.
C6_ProviderFailureOutcomes ==
    /\ (reducer = "embedding" /\ call.failed # "none") =>
          /\ pc = "raised"
          /\ call.text = <<>>
          /\ call.encode_calls = (IF call.failed = "encode_query" THEN 1 ELSE 2)
          /\ call.similarity_calls = (IF call.failed = "similarity" THEN 1 ELSE 0)
    /\ (reducer = "embedding" /\ pc = "raised") => call.failed # "none"
    /\ (reducer = "texttiling" /\ call.failed # "none") =>
          /\ pc = "returned"
          /\ call.tokenize_calls = 1
          /\ call.text = MidpointWindow(call.content, 0 - FallbackRadius,
                                        FallbackRadius - 1)
    /\ reducer = "texttiling" => pc # "raised"

\* the similarity computation failed after both encodings succeeded
C6_Witness ==
    /\ reducer = "embedding"
    /\ pc = "raised"
    /\ call.failed = "similarity"
    /\ call.encode_calls = 2

\* the scored segmentation path was taken by the last call
TTScored == TTReturned /\ call.segmented /\ Len(call.segments) >= 1

\* C7: with s >= 1 segments and maxSegments >= 1 the segmentation reducer
\* selects exactly min(maxSegments, s) segments, no unselected segment scoring
\* strictly higher than a selected one, and returns their texts joined by a
\* blank line in strictly increasing segment order; maxSegments >= s selects
\* every segment.
C7_SegmentSelection ==
    LET s     == Len(call.segments)
        sel   == {call.selected[j] : j \in 1..Len(call.selected)}
        score(i) == call.scores[i + 1]
    IN  (TTScored /\ call.max_segments >= 1) =>
            /\ Len(call.selected) = Min(call.max_segments, s)
            /\ sel \subseteq 0..(s - 1)
            /\ \A j \in 1..(Len(call.selected) - 1) :
                  call.selected[j] < call.selected[j + 1]
            /\ \A u \in (0..(s - 1)) \ sel : \A v \in sel :
                  ~ScoreGreater(score(u), score(v))
            /\ call.text = Join([j \in 1..Len(call.selected) |->
                                    call.segments[call.selected[j] + 1]], <<NL, NL>>)
            /\ call.max_segments >= s => sel = 0..(s - 1)

\* two of three segments selected, the later one scoring higher than the
\* earlier one: output order is by position, not by score
C7_Witness ==
    /\ TTScored
    /\ Len(call.segments) = 3
    /\ Len(call.selected) = 2
    /\ ScoreGreater(call.scores[call.selected[2] + 1],
                    call.scores[call.selected[1] + 1])

\* every line of the document lies in the window of some eligible line
WindowsCoverDocument ==
    WindowUnion(call.content, EligibleSet(call.content),
                call.context_before, call.context_after)
        = 0..(Len(Split(call.content, NL)) - 1)

EmbFullSelection ==
    /\ EmbReturned
    /\ Cardinality(EligibleSet(call.content)) >= 1
    /\ top_k = Cardinality(EligibleSet(call.content))
    /\ WindowsCoverDocument

TTFullSelection == TTScored /\ call.max_segments = Len(call.segments)

\* C8 as stated: with topK equal to the eligible-line count and windows that
\* cover the document the embedding reducer returns the document, and with
\* maxSegments equal to the segment count the segmentation reducer returns
\* the document.
C8_RoundTrip ==
    /\ EmbFullSelection => call.text = call.content
    /\ TTFullSelection => call.text = call.content

\* C8 as amended: the embedding part as stated; with maxSegments equal to the
\* segment count s the segmentation reducer returns all segments in order
\* with a blank line inserted between neighbours, which is the document when
\* s = 1 and is 2 * (s - 1) characters longer than it otherwise.
C8_RoundTripAmended ==
    /\ EmbFullSelection => call.text = call.content
    /\ TTFullSelection =>
          /\ call.text = Join(call.segments, <<NL, NL>>)
          /\ Len(call.text) = Len(call.content) + 2 * (Len(call.segments) - 1)
          /\ Len(call.segments) = 1 => call.text = call.content

\* every one of several segments selected
C8_Witness ==
    /\ TTFullSelection
    /\ Len(call.segments) >= 2
    /\ Len(call.selected) = Len(call.segments)

\* C9: after any call that returned, last_timing exists and its size
\* (eligible-line count or segment count) and query length are those of that
\* call.
C9_TimingDescribesLastCall ==
    pc = "returned" =>
        /\ last_timing.exists
        /\ last_timing.query_length = Len(call.query)
        /\ reducer = "embedding" =>
              last_timing.size = Cardinality(EligibleSet(call.content))
        /\ reducer = "texttiling" => last_timing.size = Len(call.segments)

\* C10: of two eligible lines with the same score of which the top-K
\* selection holds one, the selected one is the one with the lower batch
\* position.
C10_TieBreakEarlier ==
    LET n   == Len(call.similarities)
        sel == {call.selected[j] : j \in 1..Len(call.selected)}
    IN  (EmbReturned /\ top_k >= 1 /\ n >= 1) =>
            \A a \in sel : \A b \in (0..(n - 1)) \ sel :
                call.similarities[a + 1] = call.similarities[b + 1] => a < b

\* the number of the five keywords that occur in the segment, letter case
\* aside
KeywordHits(segment) ==
    Cardinality({term \in KeyTerms :
        \E i \in 0..(Len(segment) - Len(term)) :
            \A j \in 1..Len(term) : LowerChar(segment[i + j]) = <<term[j]>>})

\* the case-folded query words that are words of the case-folded segment
LexicalOverlapCount(segment, query) ==
    Cardinality({w \in Words(Lower(query)) : w \in Words(Lower(segment))})

\* the position of segment index i in the ranking
RankOf(i) == CHOOSE r \in 1..Len(call.ranked) : call.ranked[r] = i

\* the number of distinct case-folded query words
QueryWordCount == Cardinality(Words(Lower(call.query)))

\* segments u and v (0-based) have the same lexical overlap and the same
\* density
AlikeButForKeywords(u, v) ==
    LET su == call.segments[u + 1]
        sv == call.segments[v + 1]
    IN  /\ LexicalOverlapCount(su, call.query) = LexicalOverlapCount(sv, call.query)
        /\ NonBlankLines(su) * Max(1, Count(sv, NL))
              = NonBlankLines(sv) * Max(1, Count(su, NL))

\* lexicalOverlap + 0.3 * keywordHits + 0.1 * densityScore in float arithmetic
CompositeScore(segment) ==
    LET lexicalOverlap ==
            IF QueryWordCount = 0 THEN FloatZero
            ELSE FloatDiv(LexicalOverlapCount(segment, call.query), QueryWordCount)
        densityScore ==
            FloatDiv(NonBlankLines(segment), Max(1, Count(segment, NL)))
    IN  FloatAdd(FloatAdd(lexicalOverlap,
                          FloatMul(FloatDiv(3, 10), FloatOfInt(KeywordHits(segment)))),
                 FloatMul(FloatDiv(1, 10), densityScore))

\* C11: the composite score of a segment is lexicalOverlap + 0.3 * keywordHits
\* + 0.1 * densityScore, keywordHits being the number of the keywords status,
\* code, response, request, http occurring case-insensitively in the segment;
\* of two segments with equal lexical overlap and equal density the one with
\* more keywords scores strictly higher and is ranked ahead of the other.
C11_KeywordBoost ==
    LET s == Len(call.segments)
    IN  TTScored =>
            /\ Len(call.scores) = s
            /\ \A i \in 1..s : call.scores[i] = CompositeScore(call.segments[i])
            /\ \A u \in 0..(s - 1) : \A v \in 0..(s - 1) :
                  (AlikeButForKeywords(u, v)
                   /\ KeywordHits(call.segments[u + 1])
                        > KeywordHits(call.segments[v + 1])) =>
                      /\ FloatLess(call.scores[v + 1], call.scores[u + 1])
                      /\ RankOf(u) < RankOf(v)

\* a segment holding "status code" after one holding no keyword, both with
\* the same nonzero lexical overlap and the same density: the later one is
\* ranked ahead
C11_Witness ==
    /\ TTScored
    /\ \E u \in 0..(Len(call.segments) - 1) : \E v \in 0..(u - 1) :
          /\ AlikeButForKeywords(u, v)
          /\ LexicalOverlapCount(call.segments[u + 1], call.query) > 0
          /\ Contains(call.segments[u + 1], LineStatusCode)
          /\ KeywordHits(call.segments[v + 1]) = 0
          /\ RankOf(u) < RankOf(v)
====
